---- MODULE Spec2Model ----
(***************************************************************************)
(* Model of ODO_sensor_lib/core.py: class YSIOdoRtuSensor, a Modbus RTU    *)
(* driver for the YSI ODO sensor.                                          *)
(*                                                                         *)
(* Every public method of the class is one action: the methods are         *)
(* synchronous and hold no state between calls beyond `connected`,         *)
(* `unit_id` and the client.  The Modbus client (pymodbus) and the device  *)
(* behind it are the environment: each client call answers with a normal   *)
(* response, a response whose isError() is true, or raises a               *)
(* ModbusException.                                                        *)
(*                                                                         *)
(* Values: a 16-bit register is a number 0..65535, a payload is a sequence *)
(* of bytes, a Python float that goes through struct '>f' is the record of *)
(* the sign, biased exponent and mantissa of its binary32 image.           *)
(***************************************************************************)
EXTENDS Integers, Sequences, FiniteSets, TLC

VARIABLES
    connected,  \* self.connected
    unit_id,    \* self.unit_id
    linkOpen,   \* whether the client's serial link is open
    cfgReg,     \* the device's holding register 0x0001 (baud rate / parity)
    lastOp,     \* name of the method that ran last ("" after construction)
    args,       \* the arguments it was called with
    calls,      \* the client read/write calls it issued, in order
    answer,     \* how the client answered the last of them ("" if none)
    response,   \* the registers a read response carried (<<>> otherwise)
    connects,   \* how many times it called client.connect()
    ret,        \* what it gave back to its caller
    caught,     \* the exception it caught and printed ("" if none)
    printed,    \* the message it printed ("" if none)
    threads     \* where each thread that shares the session is in its method

vars == <<connected, unit_id, linkOpen, cfgReg, lastOp, args, calls, answer,
          response, connects, ret, caught, printed, threads>>

----------------------------------------------------------------------------
(* Bounds of the model *)

\* unit ids a session may be constructed with: 1..MaxUnitId
MaxUnitId == 2

\* threads that may call methods of one session: 1..MaxThreads
MaxThreads == 2

----------------------------------------------------------------------------
(* Class attributes *)

\* baud_rates = {9600: 0x00, 19200: 0x01, 38400: 0x02, 57600: 0x03, 115200: 0x04}
\* A dict keeps insertion order: keys and values are parallel sequences.
baud_rates_keys == <<9600, 19200, 38400, 57600, 115200>>
baud_rates_values == <<0, 1, 2, 3, 4>>

\* parities = {'none': 0x00, 'odd': 0x01, 'even': 0x02}
parities_keys == <<"none", "odd", "even">>
\* Mutation of parities_values: 'even' is given the code of 'odd'.
parities_values_shared == <<0, 1, 1>>

parities_values == <<0, 1, 2>>

Range(s) == {s[i] : i \in 1..Len(s)}

\* Mutation of ListIndex: an absent element is given the first position.
ListIndexDefault(s, x) ==
    IF x \in Range(s)
    THEN CHOOSE i \in 1..Len(s) : s[i] = x /\ \A j \in 1..(i - 1) : s[j] # x
    ELSE 1

\* list.index(x): position of the first element equal to x (1-based here),
\* 0 standing for the ValueError list.index raises when x is absent.
ListIndex(s, x) ==
    IF x \in Range(s)
    THEN CHOOSE i \in 1..Len(s) : s[i] = x /\ \A j \in 1..(i - 1) : s[j] # x
    ELSE 0

\* dict[key]
DictGet(keys, values, k) == values[ListIndex(keys, k)]

----------------------------------------------------------------------------
(* What a method gives back *)

RetNone == [kind |-> "None", bool |-> FALSE, exc |-> "", dict |-> <<>>]
RetBool(b) == [kind |-> "bool", bool |-> b, exc |-> "", dict |-> <<>>]
RetRaise(e) == [kind |-> "raise", bool |-> FALSE, exc |-> e, dict |-> <<>>]
RetDict(d) == [kind |-> "dict", bool |-> FALSE, exc |-> "", dict |-> d]
RetValue(v) == [kind |-> "value", bool |-> FALSE, exc |-> "", dict |-> v]

\* A thread that is in no method of the session.
ThreadIdle == [pc |-> "idle", op |-> "", call |-> <<>>, outcome |-> ""]

----------------------------------------------------------------------------
(* The client *)

\* How a client call can end.
ClientOutcomes == {"ok", "error", "raise"}

\* Mutation of ReadCall: every read goes to the holding registers.
ReadCallHolding(fn, address, count, slave) ==
    [fn |-> "read_holding_registers", address |-> address, count |-> count,
     values |-> <<>>, slave |-> slave]

ReadCall(fn, address, count, slave) ==
    [fn |-> fn, address |-> address, count |-> count, values |-> <<>>,
     slave |-> slave]

\* Mutation of WriteCall: the unit id is left out of the call, which then goes
\* to unit 1.
WriteCallDefaultUnit(fn, address, values, slave) ==
    [fn |-> fn, address |-> address, count |-> Len(values), values |-> values,
     slave |-> 1]

WriteCall(fn, address, values, slave) ==
    [fn |-> fn, address |-> address, count |-> Len(values), values |-> values,
     slave |-> slave]

\* A request that got an answer went over an open link: the client opens the
\* link itself when it has to.  A request that raised leaves the link as it was.
LinkAfter(outcome) == IF outcome = "raise" THEN linkOpen ELSE TRUE

----------------------------------------------------------------------------
(* BinaryPayloadDecoder / BinaryPayloadBuilder *)

HiByte(w) == w \div 256
LoByte(w) == w % 256

\* fromRegisters: b''.join(pack('!H', x) for x in registers)
RegistersToPayload(regs) ==
    [i \in 1..(2 * Len(regs)) |->
        IF i % 2 = 1 THEN HiByte(regs[(i + 1) \div 2]) ELSE LoByte(regs[i \div 2])]

\* registers[a:b] (0-based, b exclusive, clipped to the list)
Slice(regs, a, b) ==
    SubSeq(regs, a + 1, IF b < Len(regs) THEN b ELSE Len(regs))

\* unpack raises struct.error unless `size` bytes are left at `ptr`
CanDecode(payload, ptr, size) == ptr + size <= Len(payload)

decode_8bit_uint(payload, ptr) == payload[ptr + 1]

decode_16bit_uint(payload, ptr) == payload[ptr + 1] * 256 + payload[ptr + 2]

\* _unpack_words: the words of a multi-word value are reversed when the word
\* order is little-endian, and the two bytes of each word are swapped when the
\* byte order is little-endian; with both big-endian the bytes stay as they are.
SwapBytes(h) == [i \in 1..Len(h) |-> IF i % 2 = 1 THEN h[i + 1] ELSE h[i - 1]]
ReverseWords(h) ==
    [i \in 1..Len(h) |-> IF i % 2 = 1 THEN h[Len(h) - i] ELSE h[Len(h) - i + 2]]
\* Mutation of UnpackWords: a decoder that is given no word order takes the
\* low word first.
UnpackWordsLowFirst(h, byteorder, wordorder) ==
    ReverseWords(IF byteorder = "LITTLE" THEN SwapBytes(h) ELSE h)

UnpackWords(h, byteorder, wordorder) ==
    LET a == IF byteorder = "LITTLE" THEN SwapBytes(h) ELSE h
    IN  IF wordorder = "LITTLE" THEN ReverseWords(a) ELSE a

\* unpack('>I', b)[0]
UnpackU32(b) == ((b[1] * 256 + b[2]) * 256 + b[3]) * 256 + b[4]

\* A NaN whose quiet bit (the top bit of the mantissa) is clear.
IsSignallingNaN(x) == x.e = 255 /\ x.m # 0 /\ x.m < 4194304

Quieted(x) == [x EXCEPT !.m = x.m + 4194304]

\* A Python float is a C double and struct's 'f' format converts between
\* double and float in C.  The conversion is exact for every binary32 value
\* but a signalling NaN, which comes out with the quiet bit set.
CFloatConversion(x) == IF IsSignallingNaN(x) THEN Quieted(x) ELSE x

\* unpack('>f', b)[0]: sign, biased exponent and mantissa of the binary32,
\* converted to a Python float
UnpackF32(b) ==
    CFloatConversion([s |-> b[1] \div 128,
                      e |-> (b[1] % 128) * 2 + b[2] \div 128,
                      m |-> ((b[2] % 128) * 256 + b[3]) * 256 + b[4]])

decode_32bit_uint(payload, ptr, byteorder, wordorder) ==
    UnpackU32(UnpackWords(SubSeq(payload, ptr + 1, ptr + 4), byteorder, wordorder))

decode_32bit_float(payload, ptr, byteorder, wordorder) ==
    UnpackF32(UnpackWords(SubSeq(payload, ptr + 1, ptr + 4), byteorder, wordorder))

\* decode_string(size): self._payload[pointer:pointer + size], as it is
decode_string(payload, ptr, size) ==
    SubSeq(payload, ptr + 1, IF ptr + size < Len(payload) THEN ptr + size ELSE Len(payload))

\* Bytes a decode_<type> call consumes.
TypeBytes(type) ==
    CASE type = "u16" -> 2
      [] type = "u32" -> 4
      [] type = "f32" -> 4
      [] type = "str10" -> 10
      [] type = "str8" -> 8

\* decode_string slices and cannot fail; the numeric decoders unpack.
DecodeFails(type, payload, ptr) ==
    type \notin {"str10", "str8"} /\ ~CanDecode(payload, ptr, TypeBytes(type))

Decode(type, payload, ptr, byteorder, wordorder) ==
    CASE type = "u16" -> decode_16bit_uint(payload, ptr)
      [] type = "u32" -> decode_32bit_uint(payload, ptr, byteorder, wordorder)
      [] type = "f32" -> decode_32bit_float(payload, ptr, byteorder, wordorder)
      [] type = "str10" -> decode_string(payload, ptr, 10)
      [] type = "str8" -> decode_string(payload, ptr, 8)

----------------------------------------------------------------------------
Init ==
    /\ connected = FALSE
    /\ unit_id \in 1..MaxUnitId
    /\ linkOpen = FALSE
    /\ cfgReg \in {2 * 256 + 1, 5, 3 * 256}
    /\ lastOp = ""
    /\ args = <<>>
    /\ calls = <<>>
    /\ answer = ""
    /\ response = <<>>
    /\ connects = 0
    /\ ret = RetNone
    /\ caught = ""
    /\ printed = ""
    /\ threads = [t \in 1..MaxThreads |-> ThreadIdle]

----------------------------------------------------------------------------
(* connect / disconnect *)

\* self.connected = self.client.connect(); return self.connected
\* except ModbusException: self.connected = False; return False
ConnectFlag(outcome) == outcome = "ok"

connect ==
    \E o \in ClientOutcomes :
        /\ connected' = ConnectFlag(o)
        /\ linkOpen' = (o = "ok")
        /\ lastOp' = "connect"
        /\ args' = <<>>
        /\ calls' = <<>>
        /\ answer' = ""
        /\ response' = <<>>
        /\ connects' = 1
        /\ ret' = RetBool(ConnectFlag(o))
        /\ caught' = IF o = "raise" THEN "ModbusException" ELSE ""
        /\ printed' = IF o = "raise" THEN "Failed to connect to the sensor" ELSE ""
        /\ UNCHANGED <<unit_id, cfgReg, threads>>

\* Mutation of DisconnectReturn: closing a link that is not open is an error.
DisconnectReturnOpenOnly(open) ==
    IF open THEN RetNone ELSE RetRaise("ConnectionException")

\* disconnect has no return statement and catches nothing; client.close()
\* closes the port if there is one and is silent otherwise.
DisconnectReturn(open) == RetNone

\* self.client.close()
disconnect ==
    /\ linkOpen' = FALSE
    /\ lastOp' = "disconnect"
    /\ args' = <<>>
    /\ calls' = <<>>
    /\ answer' = ""
    /\ response' = <<>>
    /\ connects' = 0
    /\ ret' = DisconnectReturn(linkOpen)
    /\ caught' = ""
    /\ printed' = ""
    /\ UNCHANGED <<connected, unit_id, cfgReg, threads>>

\* Mutation of IssuedCalls: a request that failed is sent a second time.
IssuedCallsRetry(call, outcome) == IF outcome = "ok" THEN <<call>> ELSE <<call, call>>

\* The client calls a method makes for one request: the call, once, however
\* it ends (no method loops or calls again after a failure).
IssuedCalls(call, outcome) == <<call>>

\* What went over the transport during a method: nothing, or one request with
\* the client's answer and, for a read that came back without error status,
\* the registers of the response.
NoRequest == [calls |-> <<>>, answer |-> "", response |-> <<>>]
Request(call, outcome, regs) ==
    [calls |-> IssuedCalls(call, outcome), answer |-> outcome,
     response |-> IF outcome = "ok" THEN regs ELSE <<>>]

\* What every method leaves behind for its caller.
Returned(op, a, t, nconn, r, c, p) ==
    /\ lastOp' = op
    /\ args' = a
    /\ calls' = t.calls
    /\ answer' = t.answer
    /\ response' = t.response
    /\ connects' = nconn
    /\ ret' = r
    /\ caught' = c
    /\ printed' = p

\* A method that ran from its first line to its last in one step.
Done(op, a, t, nconn, r, c, p) ==
    /\ Returned(op, a, t, nconn, r, c, p)
    /\ UNCHANGED threads

\* The registers a read response carries, as the environment may deliver
\* them: the `count` words asked for, or fewer (a truncated frame).  Only a
\* response without error status carries registers.
ResponseLens(outcome, count) == IF outcome = "ok" THEN {0, count - 1, count} ELSE {count}

----------------------------------------------------------------------------
(* get_baud_rate_and_parity / set_baud_rate_and_parity *)

\* The body of get_baud_rate_and_parity after the read: what it returns and
\* which exception its `except Exception` caught.
BaudParityDecoded(regs) ==
    LET payload == RegistersToPayload(regs)
        parity == decode_8bit_uint(payload, 0)
        baud_rate == decode_8bit_uint(payload, 1)
        pi == ListIndex(parities_values, parity)
        bi == ListIndex(baud_rates_values, baud_rate)
    IN  IF ~CanDecode(payload, 0, 1) \/ ~CanDecode(payload, 1, 1)
        THEN [ret |-> RetNone, caught |-> "struct.error"]
        ELSE IF pi = 0 \/ bi = 0
        THEN [ret |-> RetNone, caught |-> "ValueError: is not in list"]
        ELSE [ret |-> RetDict([parity |-> parities_keys[pi],
                               baud_rate |-> baud_rates_keys[bi]]),
              caught |-> ""]

\* A read method's try block: the response, then the decoding `decoded`.
ReadOutcome(outcome, decoded) ==
    CASE outcome = "raise" -> [ret |-> RetNone, caught |-> "ModbusException"]
      [] outcome = "error" -> [ret |-> RetNone, caught |-> "ValueError: Error reading"]
      [] OTHER -> decoded

get_baud_rate_and_parity ==
    \E o \in ClientOutcomes : \E n \in ResponseLens(o, 1) :
        LET regs == SubSeq(<<cfgReg>>, 1, n)
            res == ReadOutcome(o, BaudParityDecoded(regs))
        IN  /\ Done("get_baud_rate_and_parity", <<>>,
                    Request(ReadCall("read_holding_registers", 1, 1, unit_id), o, regs), 0,
                    res.ret, res.caught,
                    IF res.caught = "" THEN ""
                    ELSE "Error retrieving baud rate and parity settings")
            /\ linkOpen' = LinkAfter(o)
            /\ UNCHANGED <<connected, unit_id, cfgReg>>

RECURSIVE BitOr(_, _)
\* a | b on non-negative integers
BitOr(a, b) ==
    IF a = 0 THEN b
    ELSE IF b = 0 THEN a
    ELSE (IF a % 2 = 1 \/ b % 2 = 1 THEN 1 ELSE 0) + 2 * BitOr(a \div 2, b \div 2)

\* Mutation of BaudParityInvalid: the parity is not looked at.
BaudParityInvalidBaudOnly(baud_rate, parity) == baud_rate \notin Range(baud_rates_keys)

\* baud_rate not in self.baud_rates or parity not in self.parities
BaudParityInvalid(baud_rate, parity) ==
    baud_rate \notin Range(baud_rates_keys) \/ parity \notin Range(parities_keys)

\* self.parities[parity] or self.baud_rates[baud_rate] raises KeyError for a
\* key its table lacks.
CombinedValueKeyError(baud_rate, parity) ==
    ListIndex(parities_keys, parity) = 0 \/ ListIndex(baud_rates_keys, baud_rate) = 0

\* Mutation of CombinedValue: the baud rate code in the upper byte.
CombinedValueSwapped(baud_rate, parity) ==
    BitOr(DictGet(baud_rates_keys, baud_rates_values, baud_rate) * 256,
          DictGet(parities_keys, parities_values, parity))

\* combined_value = (self.parities[parity] << 8) | self.baud_rates[baud_rate]
CombinedValue(baud_rate, parity) ==
    BitOr(DictGet(parities_keys, parities_values, parity) * 256,
          DictGet(baud_rates_keys, baud_rates_values, baud_rate))

\* What set_baud_rate_and_parity returns once write_register came back:
\* True whatever the response's status, False if the call raised.
SetBaudReturn(outcome) == outcome # "raise"

\* What the device holds after a write of `value` that ended with `outcome`:
\* an acknowledged write is applied, a rejected one is not, and one whose
\* answer never came may be either.
AfterWrite(old, value, outcome) ==
    CASE outcome = "ok" -> {value}
      [] outcome = "error" -> {old}
      [] OTHER -> {old, value}

\* The arguments callers pass: every key of the two tables, and one value
\* neither table has.
BaudRateArgs == Range(baud_rates_keys) \cup {1200}
ParityArgs == Range(parities_keys) \cup {"mark"}

\* Arguments for the runs in which every other method takes part as well.
BaudRateSamples == {115200, 1200}
ParitySamples == {"even", "mark"}

SetBaudRateAndParity(baudArgs, parityArgs) ==
    \E baud_rate \in baudArgs, parity \in parityArgs :
      \E o \in IF BaudParityInvalid(baud_rate, parity) THEN {"ok"} ELSE ClientOutcomes :
        LET a == [baud_rate |-> baud_rate, parity |-> parity] IN
        IF BaudParityInvalid(baud_rate, parity)
        THEN /\ Done("set_baud_rate_and_parity", a, NoRequest, 0,
                     RetRaise("ValueError"), "", "")
             /\ UNCHANGED <<connected, unit_id, linkOpen, cfgReg>>
        ELSE IF CombinedValueKeyError(baud_rate, parity)
        THEN /\ Done("set_baud_rate_and_parity", a, NoRequest, 0,
                     RetRaise("KeyError"), "", "")
             /\ UNCHANGED <<connected, unit_id, linkOpen, cfgReg>>
        ELSE LET v == CombinedValue(baud_rate, parity) IN
             /\ Done("set_baud_rate_and_parity", a,
                     Request(WriteCall("write_register", 1, <<v>>, unit_id), o, <<>>), 0,
                     RetBool(SetBaudReturn(o)),
                     IF o = "raise" THEN "ModbusException" ELSE "",
                     IF o = "raise" THEN "Failed to set baud rate and parity" ELSE "")
             /\ cfgReg' \in AfterWrite(cfgReg, v, o)
             /\ linkOpen' = LinkAfter(o)
             /\ UNCHANGED <<connected, unit_id>>

set_baud_rate_and_parity == SetBaudRateAndParity(BaudRateArgs, ParityArgs)

set_baud_rate_and_parity_sampled == SetBaudRateAndParity(BaudRateSamples, ParitySamples)

----------------------------------------------------------------------------
(* odo_factory_reset / conductivity_factory_reset *)

\* result = self.client.write_register(address, 0x0001, self.unit_id)
FactoryResetCall(address) == WriteCall("write_register", address, <<1>>, unit_id)

\* Mutation of FactoryResetReturn: the response's status is not looked at.
FactoryResetReturnUnchecked(outcome) == outcome # "raise"

\* return not result.isError(); except ModbusException: return False
FactoryResetReturn(outcome) == outcome = "ok"

FactoryReset(op, address) ==
    \E o \in ClientOutcomes :
        /\ Done(op, <<>>, Request(FactoryResetCall(address), o, <<>>), 0,
                RetBool(FactoryResetReturn(o)),
                IF o = "raise" THEN "ModbusException" ELSE "",
                IF o = "raise" THEN "Failed to reset the sensor to factory defaults"
                ELSE "")
        /\ linkOpen' = LinkAfter(o)
        /\ UNCHANGED <<connected, unit_id, cfgReg>>

odo_factory_reset == FactoryReset("odo_factory_reset", 512)

conductivity_factory_reset == FactoryReset("conductivity_factory_reset", 768)

----------------------------------------------------------------------------
(* Block reads decoded field by field *)

\* A device that stores what is written to it answers a read that follows the
\* write of the same block with the words written.
EchoOfLastWrite(address, count) ==
    IF /\ Len(calls) = 1
       /\ calls[1].fn \in {"write_register", "write_registers"}
       /\ calls[1].address = address
       /\ Len(calls[1].values) = count
       /\ answer = "ok"
    THEN {calls[1].values}
    ELSE {}

\* The first word of a response is drawn from here, the following words
\* follow from it (each differs from its neighbours).  The words stay below
\* 0x8000, so that a decoded 32-bit unsigned value stays below 2^31.
WordSamples == {0, 16706, 32640, 32767}
ResponseWords(outcome) == IF outcome = "ok" THEN WordSamples ELSE {0}

ResponseRegisters(first, n) == [i \in 1..n |-> (first + 257 * (i - 1)) % 32768]

\* A block that is mostly zero: the word 0x4142 ("AB") at the start of the
\* block and at the start of the two serial numbers of the identification
\* block, NUL words everywhere else.
NulPaddedRegisters(count) == [i \in 1..count |-> IF i \in {1, 9, 14} THEN 16706 ELSE 0]

\* The registers the client may hand back for a read of `count` words at
\* `address`.
ReadResponses(outcome, address, count) ==
    {ResponseRegisters(w, n) : n \in ResponseLens(outcome, count),
                               w \in ResponseWords(outcome)}
    \cup (IF outcome = "ok"
          THEN {NulPaddedRegisters(count)} \cup EchoOfLastWrite(address, count)
          ELSE {})

F(name, a, b, type) == [name |-> name, a |-> a, b |-> b, type |-> type]

\* get_device_info: one decoder per field, on response.registers[a:b]
DeviceInfoFields ==
    << F("product_id", 0, 1, "u16"),
       F("model_id", 1, 2, "u16"),
       F("submodel_id", 2, 3, "u16"),
       F("firmware_major_revision", 3, 4, "u16"),
       F("firmware_minor_revision", 4, 5, "u16"),
       F("firmware_subminor_revision", 5, 6, "u16"),
       F("hardware_major_revision", 6, 7, "u16"),
       F("hardware_minor_revision", 7, 8, "u16"),
       F("manufacturing_serial_number", 8, 13, "str10"),
       F("printed_circuit_board_serial_number", 13, 17, "str8") >>

\* Mutation of DataFields: the third field is given the two words of its
\* type, the fields after it stay where they are.
DataFieldsGap ==
    << F("odo_saturation", 0, 2, "f32"),
       F("odo_concentration", 2, 4, "f32"),
       F("odo_local_barometer_compensated", 4, 6, "f32"),
       F("temperature", 8, 10, "f32"),
       F("ref_temperature", 10, 12, "f32"),
       F("time_since_boot", 12, 14, "u32"),
       F("conductivity", 14, 16, "f32"),
       F("specific_conductivity", 16, 18, "f32"),
       F("salinity", 18, 20, "f32"),
       F("conductivity _nLF", 20, 22, "f32"),
       F("total_dissolved_solids", 22, 24, "f32") >>

\* get_data: one decoder per field, on response.registers[a:b]
DataFields ==
    << F("odo_saturation", 0, 2, "f32"),
       F("odo_concentration", 2, 4, "f32"),
       F("odo_local_barometer_compensated", 4, 8, "f32"),
       F("temperature", 8, 10, "f32"),
       F("ref_temperature", 10, 12, "f32"),
       F("time_since_boot", 12, 14, "u32"),
       F("conductivity", 14, 16, "f32"),
       F("specific_conductivity", 16, 18, "f32"),
       F("salinity", 18, 20, "f32"),
       F("conductivity _nLF", 20, 22, "f32"),
       F("total_dissolved_solids", 22, 24, "f32") >>

\* get_odo_last_calibration_time_and_qc_score and its conductivity twin
LastCalibrationFields ==
    << F("last_calibration_time", 0, 2, "u32"),
       F("qc_score", 2, 3, "u16") >>

\* get_odo_cap_coefficients: one decoder over the whole response, the fields
\* decoded one after the other; a and b are the words each one consumes.
CapCoefficientFields ==
    << F("K1", 0, 2, "f32"), F("K2", 2, 4, "f32"), F("K3", 4, 6, "f32"),
       F("K4", 6, 8, "f32"), F("K5", 8, 10, "f32"), F("K6", 10, 12, "f32"),
       F("K7", 12, 14, "f32"), F("KC", 14, 15, "u16"),
       F("Cap Replacement Time", 15, 17, "u32") >>

FieldNames(fields) == {fields[i].name : i \in 1..Len(fields)}

\* The value the code stores under `name`: the last assignment to that key.
FieldOf(fields, name) ==
    fields[CHOOSE i \in 1..Len(fields) :
               /\ fields[i].name = name
               /\ \A j \in (i + 1)..Len(fields) : fields[j].name # name]

\* Payload and pointer a field is decoded at: a decoder of its own over the
\* slice (sliced = TRUE), or the shared decoder's pointer.
FieldPayload(f, regs, sliced) ==
    IF sliced THEN RegistersToPayload(Slice(regs, f.a, f.b)) ELSE RegistersToPayload(regs)
FieldPtr(f, sliced) == IF sliced THEN 0 ELSE 2 * f.a

\* Index of the first field whose decoding raises, 0 if none does.
FirstFailing(fields, regs, sliced) ==
    LET bad == {i \in 1..Len(fields) :
                  DecodeFails(fields[i].type, FieldPayload(fields[i], regs, sliced),
                              FieldPtr(fields[i], sliced))}
    IN  IF bad = {} THEN 0 ELSE CHOOSE i \in bad : \A j \in bad : i <= j

\* The mapping holding the fields named in `names`.
DecodedFields(fields, names, regs, sliced, wordorder) ==
    [name \in names |->
        LET f == FieldOf(fields, name)
        IN  Decode(f.type, FieldPayload(f, regs, sliced), FieldPtr(f, sliced),
                   "BIG", wordorder)]

\* Mutation of LayoutDecoded: the fields decoded before the failure are returned.
LayoutDecodedPartial(fields, regs, sliced, wordorder) ==
    LET k == FirstFailing(fields, regs, sliced)
        n == IF k = 0 THEN Len(fields) ELSE k - 1
    IN  [ret |-> RetDict(DecodedFields(fields, {fields[i].name : i \in 1..n},
                                       regs, sliced, wordorder)),
         caught |-> ""]

\* The try block of a layout read after the response came back without error:
\* every field decoded and the mapping returned, or the first struct.error
\* caught by `except Exception` and None returned.
LayoutDecoded(fields, regs, sliced, wordorder) ==
    IF FirstFailing(fields, regs, sliced) = 0
    THEN [ret |-> RetDict(DecodedFields(fields, FieldNames(fields), regs, sliced,
                                        wordorder)),
          caught |-> ""]
    ELSE [ret |-> RetNone, caught |-> "struct.error"]

\* Mutation of RegistersDecoded: the registers of the previous response are
\* kept and decoded again when the same method is called twice in a row.
RegistersDecodedCached(op, regs) ==
    IF lastOp = op /\ answer = "ok" /\ Len(response) = Len(regs) THEN response ELSE regs

\* The registers a read method decodes: response.registers of the response
\* it has just been given (the methods keep nothing between calls).
RegistersDecoded(op, regs) == regs

\* A layout read: one block read, then the decoding.
LayoutRead(op, fn, address, count, fields, sliced, message) ==
    \E o \in ClientOutcomes : \E regs \in ReadResponses(o, address, count) :
        LET res == ReadOutcome(o, LayoutDecoded(fields, RegistersDecoded(op, regs),
                                                sliced, "BIG"))
        IN  /\ Done(op, <<>>, Request(ReadCall(fn, address, count, unit_id), o, regs), 0,
                    res.ret, res.caught, IF res.caught = "" THEN "" ELSE message)
            /\ linkOpen' = LinkAfter(o)
            /\ UNCHANGED <<connected, unit_id, cfgReg>>

get_device_info ==
    LayoutRead("get_device_info", "read_holding_registers", 4096, 17,
               DeviceInfoFields, TRUE, "Error retrieving device info")

get_data ==
    LayoutRead("get_data", "read_input_registers", 0, 24,
               DataFields, TRUE, "Error retrieving device info")

get_odo_last_calibration_time_and_qc_score ==
    LayoutRead("get_odo_last_calibration_time_and_qc_score",
               "read_holding_registers", 528, 3,
               LastCalibrationFields, TRUE, "Error retrieving device info")

get_conductivity_last_calibration_time_and_qc_score ==
    LayoutRead("get_conductivity_last_calibration_time_and_qc_score",
               "read_holding_registers", 784, 3,
               LastCalibrationFields, TRUE, "Error retrieving device info")

get_odo_cap_coefficients ==
    LayoutRead("get_odo_cap_coefficients", "read_holding_registers", 256, 17,
               CapCoefficientFields, FALSE, "Error retrieving ODO cap coefficients")

\* get_cap_serial: decode_string(10) over the whole response
get_cap_serial ==
    \E o \in ClientOutcomes : \E regs \in ReadResponses(o, 288, 5) :
        LET res == ReadOutcome(o,
                     [ret |-> RetValue(decode_string(RegistersToPayload(regs), 0, 10)),
                      caught |-> ""])
        IN  /\ Done("get_cap_serial", <<>>,
                    Request(ReadCall("read_holding_registers", 288, 5, unit_id), o, regs), 0,
                    res.ret, res.caught,
                    IF res.caught = "" THEN "" ELSE "Error retrieving device info")
            /\ linkOpen' = LinkAfter(o)
            /\ UNCHANGED <<connected, unit_id, cfgReg>>

\* get_user_tds_coefficient, get_user_temperature_reference,
\* get_user_temperature_coefficient: no try block, so an exception of the
\* client, the `raise Exception` on isError() and a struct.error all propagate.
UserCoefficientRead(op, address) ==
    \E o \in ClientOutcomes : \E regs \in ReadResponses(o, address, 2) :
        LET payload == RegistersToPayload(regs)
            r == CASE o = "raise" -> RetRaise("ModbusException")
                   [] o = "error" -> RetRaise("Exception")
                   [] OTHER -> IF CanDecode(payload, 0, 4)
                               THEN RetValue(decode_32bit_float(payload, 0, "BIG", "BIG"))
                               ELSE RetRaise("struct.error")
        IN  /\ Done(op, <<>>,
                    Request(ReadCall("read_holding_registers", address, 2, unit_id), o, regs),
                    0, r, "", "")
            /\ linkOpen' = LinkAfter(o)
            /\ UNCHANGED <<connected, unit_id, cfgReg>>

get_user_tds_coefficient == UserCoefficientRead("get_user_tds_coefficient", 1280)

get_user_temperature_reference == UserCoefficientRead("get_user_temperature_reference", 1282)

get_user_temperature_coefficient ==
    UserCoefficientRead("get_user_temperature_coefficient", 1284)

----------------------------------------------------------------------------
(* BinaryPayloadBuilder *)

\* The integers add_32bit_uint accepts, as far as the model passes them
\* (below 2^31).
U32Range == 0..2147483647

RECURSIVE Pow2(_)
Pow2(k) == IF k = 0 THEN 1 ELSE 2 * Pow2(k - 1)

RECURSIVE FloorLog2(_)
FloorLog2(n) == IF n < 2 THEN 0 ELSE 1 + FloorLog2(n \div 2)

F32(s, e, m) == [s |-> s, e |-> e, m |-> m]

\* The binary32 nearest to the non-negative integer n (round half to even):
\* what struct.pack('f', n) stores for a Python int.
IntToF32(n) ==
    IF n = 0 THEN F32(0, 0, 0)
    ELSE LET e2 == FloorLog2(n) IN
         IF e2 <= 23
         THEN F32(0, e2 + 127, n * Pow2(23 - e2) - 8388608)
         ELSE LET sh == e2 - 23
                  q == n \div Pow2(sh)
                  r == n % Pow2(sh)
                  half == Pow2(sh - 1)
                  up == IF r > half \/ (r = half /\ q % 2 = 1) THEN 1 ELSE 0
                  m24 == q + up
              IN  IF m24 = 16777216 THEN F32(0, e2 + 128, 0)
                  ELSE F32(0, e2 + 127, m24 - 8388608)

\* pack('!I', v)
PackU32(v) == << v \div 16777216, (v \div 65536) % 256, (v \div 256) % 256, v % 256 >>

\* Mutation of PackF32: the sign bit is left out.
PackF32Unsigned(x) ==
    LET y == CFloatConversion(x)
    IN  << y.e \div 2, (y.e % 2) * 128 + y.m \div 65536,
           (y.m \div 256) % 256, y.m % 256 >>

\* pack('!f', x): the Python float converted to a C float, then its bytes
PackF32(x) ==
    LET y == CFloatConversion(x)
    IN  << y.s * 128 + y.e \div 2, (y.e % 2) * 128 + y.m \div 65536,
           (y.m \div 256) % 256, y.m % 256 >>

\* _pack_words: the words reversed for a little-endian word order, each word
\* packed with the byte order.
PackWords(h, byteorder, wordorder) ==
    LET a == IF wordorder = "LITTLE" THEN ReverseWords(h) ELSE h
    IN  IF byteorder = "LITTLE" THEN SwapBytes(a) ELSE a

\* A value handed to the builder: U(v) by add_32bit_uint, H(v) by
\* add_16bit_uint, R(x) by add_32bit_float with a float, RI(n) by
\* add_32bit_float with an int.
U(v) == [t |-> "u32", v |-> v]
H(v) == [t |-> "u16", v |-> v]
R(x) == [t |-> "f32", v |-> x]
RI(n) == [t |-> "f32int", v |-> n]

\* struct.error: the integer does not fit the format
AddFails(item) ==
    \/ item.t = "u32" /\ item.v \notin U32Range
    \/ item.t = "u16" /\ item.v \notin 0..65535

AddBytes(item, byteorder, wordorder) ==
    CASE item.t = "u32" -> PackWords(PackU32(item.v), byteorder, wordorder)
      [] item.t = "u16" -> PackWords(<<item.v \div 256, item.v % 256>>, byteorder, "BIG")
      [] item.t = "f32" -> PackWords(PackF32(item.v), byteorder, wordorder)
      [] item.t = "f32int" -> PackWords(PackF32(IntToF32(item.v)), byteorder, wordorder)

RECURSIVE BuilderPayload(_, _, _)
\* The builder's byte string after the add_ calls for `items`.
BuilderPayload(items, byteorder, wordorder) ==
    IF items = <<>> THEN <<>>
    ELSE AddBytes(Head(items), byteorder, wordorder)
         \o BuilderPayload(Tail(items), byteorder, wordorder)

BuilderFails(items) == \E i \in 1..Len(items) : AddFails(items[i])

\* build() cuts the byte string into two-byte registers; to_registers()
\* unpacks each with '!H'.  Either way these are the words on the wire.
BuildRegisters(bytes) ==
    [i \in 1..(Len(bytes) \div 2) |-> bytes[2 * i - 1] * 256 + bytes[2 * i]]

----------------------------------------------------------------------------
(* Block writes *)

CalibrationTimes == {-1, 1610000000}

\* 1.0 and -2.5
FloatSamples == {F32(0, 127, 0), F32(1, 128, 2097152)}

\* The floats handed to the user-coefficient setters: the two above, both
\* zeros, the smallest positive and the largest negative subnormal,
\* infinity, a quiet NaN with a payload and a signalling NaN.
F32Patterns ==
    FloatSamples \cup
    {F32(0, 0, 0), F32(1, 0, 0), F32(0, 0, 1), F32(1, 0, 8388607),
     F32(0, 255, 0), F32(0, 255, 4194305), F32(1, 255, 1)}

\* How each write method treats what write_registers gives back.
\*   "bool":    try: write; return True / except Exception: return False
\*   "bare":    write, nothing checked, nothing caught
\*   "print":   try: write; print success / except Exception: print failure
\*              (`what` is the pair of the names the two messages use)
\*   "checked": write; if result.isError(): raise Exception
WriteReturn(style, outcome, what) ==
    CASE style = "bool" ->
           [ret |-> RetBool(outcome # "raise"),
            caught |-> IF outcome = "raise" THEN "ModbusException" ELSE "",
            printed |-> IF outcome = "raise" THEN "Error setting " \o what ELSE ""]
      [] style = "bare" ->
           [ret |-> IF outcome = "raise" THEN RetRaise("ModbusException") ELSE RetNone,
            caught |-> "", printed |-> ""]
      [] style = "print" ->
           [ret |-> RetNone,
            caught |-> IF outcome = "raise" THEN "ModbusException" ELSE "",
            printed |-> IF outcome = "raise" THEN "Failed to perform " \o what[2]
                        ELSE what[1] \o " performed successfully."]
      [] style = "checked" ->
           [ret |-> CASE outcome = "raise" -> RetRaise("ModbusException")
                      [] outcome = "error" -> RetRaise("Exception")
                      [] OTHER -> RetNone,
            caught |-> "",
            printed |-> IF outcome = "ok" /\ what # "" THEN what \o " successful." ELSE ""]

\* A write method: the builder fills the payload (a struct.error propagates,
\* the builder being outside any try block), then one write_registers.
LayoutWrite(op, a, address, items, wordorder, style, what) ==
    IF BuilderFails(items)
    THEN /\ Done(op, a, NoRequest, 0, RetRaise("struct.error"), "", "")
         /\ UNCHANGED <<connected, unit_id, linkOpen, cfgReg>>
    ELSE \E o \in ClientOutcomes :
           LET words == BuildRegisters(BuilderPayload(items, "BIG", wordorder))
               res == WriteReturn(style, o, what)
           IN  /\ Done(op, a,
                       Request(WriteCall("write_registers", address, words, unit_id), o, <<>>),
                       0, res.ret, res.caught, res.printed)
               /\ linkOpen' = LinkAfter(o)
               /\ UNCHANGED <<connected, unit_id, cfgReg>>

perform_odo_zero_calibration ==
    \E t \in CalibrationTimes :
        LayoutWrite("perform_odo_zero_calibration", [calibration_time |-> t],
                    544, <<U(t)>>, "BIG", "bool", "ODO Zero Calibration Time")

perform_odo_percent_saturation_calibration ==
    \E t \in CalibrationTimes, p \in FloatSamples :
        LayoutWrite("perform_odo_percent_saturation_calibration",
                    [calibration_time |-> t, barometric_pressure |-> p],
                    560, <<U(t), R(p)>>, "BIG", "bare", "")

perform_odo_mgL_calibration ==
    \E t \in CalibrationTimes, v \in FloatSamples, sal \in FloatSamples :
        LayoutWrite("perform_odo_mgL_calibration",
                    [calibration_time |-> t, calibration_value |-> v,
                     calibration_salinity |-> sal],
                    576, <<U(t), R(v), R(sal)>>, "BIG", "bare", "")

perform_us_cm_calibration ==
    \E t \in CalibrationTimes, v \in FloatSamples :
        LayoutWrite("perform_us_cm_calibration",
                    [calibration_time |-> t, calibration_value |-> v],
                    800, <<U(t), R(v)>>, "BIG", "print",
                    <<"µS/cm calibration", "µS/cm calibration">>)

perform_salinity_ppt_calibration ==
    \E t \in CalibrationTimes, v \in FloatSamples :
        LayoutWrite("perform_salinity_ppt_calibration",
                    [calibration_time |-> t, calibration_value |-> v],
                    816, <<U(t), R(v)>>, "BIG", "print",
                    <<"Salinity ppt calibration", "salinity ppt calibration">>)

\* set_user_tds_coefficient, set_user_temperature_reference,
\* set_user_temperature_coefficient
UserCoefficientWrite(op, address) ==
    \E x \in F32Patterns :
        LayoutWrite(op, [value |-> x], address, <<R(x)>>, "BIG", "checked", "")

set_user_tds_coefficient == UserCoefficientWrite("set_user_tds_coefficient", 1280)

set_user_temperature_reference ==
    UserCoefficientWrite("set_user_temperature_reference", 1282)

set_user_temperature_coefficient ==
    UserCoefficientWrite("set_user_temperature_coefficient", 1284)

\* perform_specific_conductance_calibration, perform_nlf_conductivity_calibration:
\* `assert self.connect()` comes first, then the builder, then the write.
ConnectingWrite(op, address, what) ==
    \E t \in CalibrationTimes, v \in FloatSamples, oc \in ClientOutcomes :
        LET a == [calibration_time |-> t, calibration_value |-> v]
            items == <<U(t), R(v)>>
        IN  /\ connected' = ConnectFlag(oc)
            /\ UNCHANGED <<unit_id, cfgReg>>
            /\ IF ~ConnectFlag(oc)
               THEN /\ Done(op, a, NoRequest, 1, RetRaise("AssertionError"),
                            IF oc = "raise" THEN "ModbusException" ELSE "",
                            IF oc = "raise" THEN "Failed to connect to the sensor" ELSE "")
                    /\ linkOpen' = FALSE
               ELSE IF BuilderFails(items)
               THEN /\ Done(op, a, NoRequest, 1, RetRaise("struct.error"), "", "")
                    /\ linkOpen' = TRUE
               ELSE \E o \in ClientOutcomes :
                      LET words == BuildRegisters(BuilderPayload(items, "BIG", "BIG"))
                          res == WriteReturn("checked", o, what)
                      IN  /\ Done(op, a,
                                  Request(WriteCall("write_registers", address, words,
                                                    unit_id), o, <<>>),
                                  1, res.ret, res.caught, res.printed)
                          /\ linkOpen' = TRUE

perform_specific_conductance_calibration ==
    ConnectingWrite("perform_specific_conductance_calibration", 832,
                    "Specific conductance calibration")

perform_nlf_conductivity_calibration ==
    ConnectingWrite("perform_nlf_conductivity_calibration", 848,
                    "nLF conductivity calibration")

(* set_odo_cap_coefficients *)

\* for key in [...]: the keys in the order the loop takes them
CapCoefficientKeys ==
    <<"K1", "K2", "K3", "K4", "K5", "K6", "K7", "KC", "Cap Replacement Time">>

\* The mappings a caller passes: the nine keys, one of them left out, or a
\* tenth one added.
CoefficientKeySets ==
    {Range(CapCoefficientKeys)}
    \cup {Range(CapCoefficientKeys) \ {k} : k \in {"K1", "KC", "Cap Replacement Time"}}
    \cup {Range(CapCoefficientKeys) \cup {"K8"}}

CoefficientValue(key, x) ==
    CASE key = "KC" -> 1
      [] key = "Cap Replacement Time" -> 1610000000
      [] OTHER -> x

\* KC goes through add_16bit_uint, every other key through add_32bit_float.
CapCoefficientItem(key, value) ==
    IF key = "KC" THEN H(value)
    ELSE IF key = "Cap Replacement Time" THEN RI(value)
    ELSE R(value)

\* coefficients[key] raises KeyError for the first key of the loop the mapping lacks.
CapCoefficientsKeyError(coefficients) ==
    \E i \in 1..Len(CapCoefficientKeys) : CapCoefficientKeys[i] \notin DOMAIN coefficients

set_odo_cap_coefficients ==
    \E keys \in CoefficientKeySets, x \in FloatSamples :
        LET coefficients == [k \in keys |-> CoefficientValue(k, x)]
            a == [coefficients |-> coefficients]
        IN  IF CapCoefficientsKeyError(coefficients)
            THEN /\ Done("set_odo_cap_coefficients", a, NoRequest, 0, RetRaise("KeyError"),
                         "", "")
                 /\ UNCHANGED <<connected, unit_id, linkOpen, cfgReg>>
            ELSE LayoutWrite("set_odo_cap_coefficients", a, 256,
                             [i \in 1..Len(CapCoefficientKeys) |->
                                 CapCoefficientItem(CapCoefficientKeys[i],
                                                    coefficients[CapCoefficientKeys[i]])],
                             "BIG", "bool", "ODO cap coefficients")

----------------------------------------------------------------------------
----------------------------------------------------------------------------
(* Methods called from several threads *)

\* The methods above run to their end in one step, which is what one thread
\* sees.  For threads that share a session a method is two steps: it calls
\* the client, and later the client call returns.  The class has no lock and
\* no method takes one, so nothing orders the steps of different threads.
ThreadMethods ==
    {"get_baud_rate_and_parity", "get_device_info", "get_data", "odo_factory_reset"}

ThreadCall(op) ==
    CASE op = "get_baud_rate_and_parity" -> ReadCall("read_holding_registers", 1, 1, unit_id)
      [] op = "get_device_info" -> ReadCall("read_holding_registers", 4096, 17, unit_id)
      [] op = "get_data" -> ReadCall("read_input_registers", 0, 24, unit_id)
      [] op = "odo_factory_reset" -> FactoryResetCall(512)

\* Thread t enters a method and the method calls the client.
ThreadInvoke(t) ==
    /\ threads[t].pc = "idle"
    /\ \E op \in ThreadMethods :
          threads' = [threads EXCEPT ![t] =
                        [pc |-> "in_client_call", op |-> op, call |-> ThreadCall(op),
                         outcome |-> ""]]
    /\ UNCHANGED <<connected, unit_id, linkOpen, cfgReg, lastOp, args, calls, answer,
                   response, connects, ret, caught, printed>>

\* The registers the client may hand back to the call of method op.
ThreadResponses(op, call, outcome) ==
    CASE op = "get_baud_rate_and_parity" ->
           {SubSeq(<<cfgReg>>, 1, n) : n \in ResponseLens(outcome, 1)}
      [] op = "odo_factory_reset" -> {<<>>}
      [] OTHER -> ReadResponses(outcome, call.address, call.count)

\* What the rest of method op makes of the client's answer: the same as in
\* the one-step methods above.
ThreadResult(op, outcome, regs) ==
    CASE op = "get_baud_rate_and_parity" ->
           LET res == ReadOutcome(outcome, BaudParityDecoded(regs))
           IN  [ret |-> res.ret, caught |-> res.caught,
                printed |-> IF res.caught = "" THEN ""
                            ELSE "Error retrieving baud rate and parity settings"]
      [] op = "odo_factory_reset" ->
           [ret |-> RetBool(FactoryResetReturn(outcome)),
            caught |-> IF outcome = "raise" THEN "ModbusException" ELSE "",
            printed |-> IF outcome = "raise"
                        THEN "Failed to reset the sensor to factory defaults" ELSE ""]
      [] OTHER ->
           LET res == ReadOutcome(outcome,
                        LayoutDecoded(IF op = "get_data" THEN DataFields
                                      ELSE DeviceInfoFields,
                                      RegistersDecoded(op, regs), TRUE, "BIG"))
           IN  [ret |-> res.ret, caught |-> res.caught,
                printed |-> IF res.caught = "" THEN ""
                            ELSE "Error retrieving device info"]

\* The client call of thread t returns (or raises) and the method runs to its
\* end: it decodes, prints and returns as it does for a single caller.
ThreadReturn(t) ==
    /\ threads[t].pc = "in_client_call"
    /\ \E o \in ClientOutcomes :
        \E regs \in ThreadResponses(threads[t].op, threads[t].call, o) :
          LET res == ThreadResult(threads[t].op, o, regs)
          IN  /\ threads' = [threads EXCEPT ![t] =
                               [pc |-> "idle", op |-> threads[t].op, call |-> <<>>,
                                outcome |-> o]]
              /\ Returned(threads[t].op, <<>>, Request(threads[t].call, o, regs), 0,
                          res.ret, res.caught, res.printed)
              /\ linkOpen' = LinkAfter(o)
    /\ UNCHANGED <<connected, unit_id, cfgReg>>

Next ==
    \/ connect
    \/ disconnect
    \/ get_baud_rate_and_parity
    \/ set_baud_rate_and_parity_sampled
    \/ odo_factory_reset
    \/ conductivity_factory_reset
    \/ get_device_info
    \/ get_data
    \/ get_cap_serial
    \/ get_odo_last_calibration_time_and_qc_score
    \/ get_conductivity_last_calibration_time_and_qc_score
    \/ get_odo_cap_coefficients
    \/ get_user_tds_coefficient
    \/ get_user_temperature_reference
    \/ get_user_temperature_coefficient
    \/ perform_odo_zero_calibration
    \/ perform_odo_percent_saturation_calibration
    \/ perform_odo_mgL_calibration
    \/ set_odo_cap_coefficients
    \/ perform_us_cm_calibration
    \/ perform_salinity_ppt_calibration
    \/ perform_specific_conductance_calibration
    \/ perform_nlf_conductivity_calibration
    \/ set_user_tds_coefficient
    \/ set_user_temperature_reference
    \/ set_user_temperature_coefficient

Spec == Init /\ [][Next]_vars

\* The session with the configuration register alone: connect, disconnect and
\* the two methods of register 0x0001, over every argument.
NextConfig ==
    \/ connect
    \/ disconnect
    \/ get_baud_rate_and_parity
    \/ set_baud_rate_and_parity

SpecConfig == Init /\ [][NextConfig]_vars

----------------------------------------------------------------------------
\* Threads sharing one session, nothing else happening.
NextThreads == \E t \in 1..MaxThreads : ThreadInvoke(t) \/ ThreadReturn(t)

SpecThreads == Init /\ [][NextThreads]_vars

(* The methods by what they do on the transport *)

LayoutReadOps ==
    {"get_baud_rate_and_parity", "get_device_info", "get_data",
     "get_odo_cap_coefficients", "get_odo_last_calibration_time_and_qc_score",
     "get_conductivity_last_calibration_time_and_qc_score"}

ReadOps ==
    LayoutReadOps \cup
    {"get_cap_serial", "get_user_tds_coefficient", "get_user_temperature_reference",
     "get_user_temperature_coefficient"}

FactoryResetOps == {"odo_factory_reset", "conductivity_factory_reset"}

CalibrationOps ==
    {"perform_odo_zero_calibration", "perform_odo_percent_saturation_calibration",
     "perform_odo_mgL_calibration", "perform_us_cm_calibration",
     "perform_salinity_ppt_calibration", "perform_specific_conductance_calibration",
     "perform_nlf_conductivity_calibration"}

ConnectingOps ==
    {"perform_specific_conductance_calibration", "perform_nlf_conductivity_calibration"}

UserCoefficientSetters ==
    {"set_user_tds_coefficient", "set_user_temperature_reference",
     "set_user_temperature_coefficient"}

WriteOps ==
    {"set_baud_rate_and_parity", "set_odo_cap_coefficients"}
    \cup FactoryResetOps \cup CalibrationOps \cup UserCoefficientSetters

ReadFunctions == {"read_holding_registers", "read_input_registers"}
WriteFunctions == {"write_register", "write_registers"}

\* Words of each method's layout, as the register map of the specification
\* lists them.
RegisterMapWords(op) ==
    CASE op \in {"get_baud_rate_and_parity", "set_baud_rate_and_parity"} -> 1
      [] op = "get_device_info" -> 17
      [] op = "get_data" -> 24
      [] op = "get_cap_serial" -> 5
      [] op \in FactoryResetOps -> 1
      [] op \in {"get_odo_cap_coefficients", "set_odo_cap_coefficients"} -> 17
      [] op \in {"get_odo_last_calibration_time_and_qc_score",
                 "get_conductivity_last_calibration_time_and_qc_score"} -> 3
      [] op = "perform_odo_zero_calibration" -> 2
      [] op = "perform_odo_mgL_calibration" -> 6
      [] op \in CalibrationOps -> 4
      [] OTHER -> 2

\* The caller's arguments are ones the method takes to the transport: labels
\* of the two tables, a calibration time that is a 32-bit unsigned integer,
\* a mapping that has the nine coefficient keys; and, for the two methods
\* that connect first, the connection came up.
ArgumentsAccepted ==
    /\ lastOp = "set_baud_rate_and_parity" =>
          /\ args.baud_rate \in {9600, 19200, 38400, 57600, 115200}
          /\ args.parity \in {"none", "odd", "even"}
    /\ lastOp \in CalibrationOps => args.calibration_time >= 0
    /\ lastOp \in ConnectingOps => connected
    /\ lastOp = "set_odo_cap_coefficients" =>
          Range(CapCoefficientKeys) \subseteq DOMAIN args.coefficients

ReportsFailure == ret.kind = "raise" \/ (ret.kind = "bool" /\ ~ret.bool)

----------------------------------------------------------------------------
(* Claims *)

\* C1: every read method issues exactly one block read of its layout's word
\* count, every write method whose arguments are accepted issues exactly one
\* write of its layout's word count, and no method issues a second call,
\* whether the first one succeeded or failed.
C1_OneRequestPerOperation ==
    /\ Len(calls) <= 1
    /\ lastOp \in ReadOps =>
          /\ Len(calls) = 1
          /\ calls[1].fn \in ReadFunctions
          /\ calls[1].count = RegisterMapWords(lastOp)
    /\ (lastOp \in WriteOps /\ ArgumentsAccepted) =>
          /\ Len(calls) = 1
          /\ calls[1].fn \in WriteFunctions
          /\ calls[1].count = RegisterMapWords(lastOp)

\* C1 witness: a 17-word coefficient write that failed and was not repeated.
C1_Witness ==
    /\ lastOp = "set_odo_cap_coefficients"
    /\ answer = "raise"
    /\ ret = RetBool(FALSE)
    /\ Len(calls) = 1
    /\ calls[1].count = 17

\* C2: a method invoked while the link is closed is rejected with an error,
\* issues no read or write, and does not open the link.
C2_DisconnectedRejects ==
    [][(~linkOpen /\ lastOp' \in ReadOps \cup WriteOps) =>
          (calls' = <<>> /\ connects' = 0 /\ ret'.kind = "raise" /\ ~linkOpen')]_vars

\* C3: a write method whose write the device answered with an error status
\* reports failure to its caller.
C3_ErrorStatusReported ==
    (lastOp \in WriteOps /\ answer = "error") => ReportsFailure

\* C4: set_baud_rate_and_parity with a baud rate or a parity outside the
\* tables raises ValueError, issues no transport call and leaves the device's
\* configuration register as it was.
C4_InvalidLabelsRejected ==
    [][(/\ lastOp' = "set_baud_rate_and_parity"
        /\ \/ args'.baud_rate \notin {9600, 19200, 38400, 57600, 115200}
           \/ args'.parity \notin {"none", "odd", "even"})
       => (ret' = RetRaise("ValueError") /\ calls' = <<>> /\ cfgReg' = cfgReg)]_vars

\* C4 witness: a known baud rate with an unknown parity was rejected.
C4_Witness ==
    /\ lastOp = "set_baud_rate_and_parity"
    /\ args.baud_rate = 19200
    /\ args.parity = "mark"
    /\ ret.kind = "raise"

\* C5: set_odo_cap_coefficients given a mapping whose keys are not exactly
\* the nine declared ones fails and issues no transport call.
C5_ExactFieldSet ==
    (lastOp = "set_odo_cap_coefficients"
     /\ DOMAIN args.coefficients # Range(CapCoefficientKeys))
    => (ret.kind = "raise" /\ calls = <<>>)

\* C6: the word set_baud_rate_and_parity wrote for a pair of the tables, when
\* it is the word the device returns to get_baud_rate_and_parity, decodes to
\* that pair.
C6_BaudParityRoundTrip ==
    [][(/\ lastOp = "set_baud_rate_and_parity"
        /\ Len(calls) = 1
        /\ lastOp' = "get_baud_rate_and_parity"
        /\ answer' = "ok"
        /\ response' = calls[1].values)
       => ret' = RetDict([parity |-> args.parity, baud_rate |-> args.baud_rate])]_vars

\* C6 witness: 115200/odd was read back, a pair no initial register holds.
C6_Witness ==
    /\ lastOp = "get_baud_rate_and_parity"
    /\ ret.kind = "dict"
    /\ ret.dict.baud_rate = 115200
    /\ ret.dict.parity = "odd"
    /\ cfgReg = 1 * 256 + 4

\* C7: when the word read has a high byte that is no parity code or a low
\* byte that is no baud rate code, get_baud_rate_and_parity fails on the
\* lookup and returns no mapping: no label, no default, no single field.
C7_UnknownCodeIsAnError ==
    (/\ lastOp = "get_baud_rate_and_parity"
     /\ answer = "ok"
     /\ Len(response) = 1
     /\ \/ HiByte(response[1]) \notin {0, 1, 2}
        \/ LoByte(response[1]) \notin {0, 1, 2, 3, 4})
    => (ret = RetNone /\ caught = "ValueError: is not in list")

\* C7 witness: the device returned parity code 3.
C7_Witness ==
    /\ lastOp = "get_baud_rate_and_parity"
    /\ response = <<3 * 256>>
    /\ ret = RetNone

\* Number of fields of each layout read.
LayoutFieldCount(op) ==
    CASE op = "get_baud_rate_and_parity" -> 2
      [] op = "get_device_info" -> 10
      [] op = "get_data" -> 11
      [] op = "get_odo_cap_coefficients" -> 9
      [] OTHER -> 2

\* C8: a layout read returns a mapping with every field of the layout or no
\* mapping at all; it returns none when the read reported an error or the
\* response is too short for a numeric field.
C8_AllFieldsOrNothing ==
    lastOp \in LayoutReadOps =>
        /\ ret = RetNone \/ (ret.kind = "dict"
                            /\ Cardinality(DOMAIN ret.dict) = LayoutFieldCount(lastOp))
        /\ answer # "ok" => ret = RetNone
        /\ (answer = "ok" /\ lastOp # "get_device_info"
            /\ Len(response) < RegisterMapWords(lastOp)) => ret = RetNone
        /\ (answer = "ok" /\ lastOp = "get_device_info" /\ Len(response) < 8)
              => ret = RetNone

\* C8 witness: the snapshot read came back one word short, so that ten of its
\* eleven fields could be decoded, and nothing was returned.
C8_Witness ==
    /\ lastOp = "get_data"
    /\ answer = "ok"
    /\ Len(response) = 23
    /\ ret = RetNone

\* C9: what a method returns tells a transport error from a decode failure:
\* get_baud_rate_and_parity after an error status does not return what it
\* returns for a word it cannot decode.
C9_StagesDistinguishable ==
    (lastOp = "get_baud_rate_and_parity" /\ answer = "error")
    => \A w \in {5, 3 * 256} : ret # BaudParityDecoded(<<w>>).ret

\* C10: each factory reset issues one write_register of the value 1 to its
\* address and nothing else, and returns True exactly when the device
\* acknowledged the write without an error status.
C10_FactoryReset ==
    lastOp \in FactoryResetOps =>
        /\ connects = 0
        /\ calls = << [fn |-> "write_register",
                       address |-> IF lastOp = "odo_factory_reset" THEN 512 ELSE 768,
                       count |-> 1, values |-> <<1>>, slave |-> unit_id] >>
        /\ ret = RetBool(answer = "ok")

\* C10 witness: the device answered the conductivity reset with an error status.
C10_Witness ==
    /\ lastOp = "conductivity_factory_reset"
    /\ answer = "error"
    /\ ret = RetBool(FALSE)

\* Start address of each method's row in the register map of the
\* specification.
RegisterMapAddress(op) ==
    CASE op \in {"get_baud_rate_and_parity", "set_baud_rate_and_parity"} -> 1
      [] op = "get_device_info" -> 4096
      [] op = "get_data" -> 0
      [] op = "get_cap_serial" -> 288
      [] op = "odo_factory_reset" -> 512
      [] op \in {"get_odo_cap_coefficients", "set_odo_cap_coefficients"} -> 256
      [] op = "get_odo_last_calibration_time_and_qc_score" -> 528
      [] op = "perform_odo_zero_calibration" -> 544
      [] op = "perform_odo_percent_saturation_calibration" -> 560
      [] op = "perform_odo_mgL_calibration" -> 576
      [] op = "conductivity_factory_reset" -> 768
      [] op = "get_conductivity_last_calibration_time_and_qc_score" -> 784
      [] op = "perform_us_cm_calibration" -> 800
      [] op = "perform_salinity_ppt_calibration" -> 816
      [] op = "perform_specific_conductance_calibration" -> 832
      [] op = "perform_nlf_conductivity_calibration" -> 848
      [] op \in {"get_user_tds_coefficient", "set_user_tds_coefficient"} -> 1280
      [] op \in {"get_user_temperature_reference",
                 "set_user_temperature_reference"} -> 1282
      [] OTHER -> 1284

\* C11: every request a method issues goes to the register kind, the start
\* address and the word count of the method's row in the register map: the
\* live snapshot is read from the input registers, every other read from the
\* holding registers, and a write method issues a write.
C11_RegisterMapRows ==
    lastOp \in ReadOps \cup WriteOps =>
        \A i \in 1..Len(calls) :
            /\ calls[i].address = RegisterMapAddress(lastOp)
            /\ calls[i].count = RegisterMapWords(lastOp)
            /\ lastOp = "get_data" => calls[i].fn = "read_input_registers"
            /\ lastOp \in ReadOps \ {"get_data"} =>
                   calls[i].fn = "read_holding_registers"
            /\ lastOp \in WriteOps => calls[i].fn \in WriteFunctions

\* The live snapshot was read, and so was the identification block.
C11_Witness ==
    /\ lastOp = "get_data"
    /\ Len(calls) = 1
    /\ calls[1].fn = "read_input_registers"
    /\ calls[1].address = 0
    /\ calls[1].count = 24

\* C12: the 17 words set_odo_cap_coefficients writes for a mapping of the
\* nine coefficients, read back by get_odo_cap_coefficients from a device
\* that stored them, decode to the mapping that was written.
C12_CapCoefficientsRoundTrip ==
    [][ ( /\ lastOp = "set_odo_cap_coefficients"
          /\ Len(calls) = 1
          /\ answer = "ok"
          /\ lastOp' = "get_odo_cap_coefficients"
          /\ answer' = "ok"
          /\ response' = calls[1].values )
        => ret' = RetDict([k \in Range(CapCoefficientKeys) |-> args.coefficients[k]])
      ]_vars

UserCoefficientGetter(op) ==
    CASE op = "set_user_tds_coefficient" -> "get_user_tds_coefficient"
      [] op = "set_user_temperature_reference" -> "get_user_temperature_reference"
      [] op = "set_user_temperature_coefficient" -> "get_user_temperature_coefficient"
      [] OTHER -> ""

\* The two register words of a binary32 pattern, high word first.
F32Words(x) == << x.s * 32768 + x.e * 128 + x.m \div 65536, x.m % 65536 >>

\* A user-coefficient setter was answered and its getter, called next, was
\* handed the two words the setter wrote.
SetThenGet ==
    /\ lastOp \in UserCoefficientSetters
    /\ Len(calls) = 1
    /\ answer = "ok"
    /\ lastOp' = UserCoefficientGetter(lastOp)
    /\ answer' = "ok"
    /\ response' = calls[1].values

\* C13 as stated: for every binary32 pattern, NaN payloads included, the
\* setter writes the two words of the pattern and the getter returns the
\* pattern from them.
C13_F32RoundTrip ==
    [][ SetThenGet => /\ calls[1].values = F32Words(args.value)
                      /\ ret' = RetValue(args.value) ]_vars

\* C13, amended: for every binary32 pattern that is not a signalling NaN
\* (both zeros, subnormals, infinities and quiet NaN payloads included) the
\* setter writes the two words of the pattern and the getter returns the
\* pattern from them.
C13_F32RoundTripAmended ==
    [][ (SetThenGet /\ ~IsSignallingNaN(args.value))
        => /\ calls[1].values = F32Words(args.value)
           /\ ret' = RetValue(args.value) ]_vars

\* The getter returned the largest negative subnormal from the words a
\* setter had written for it.
C13_Witness ==
    /\ lastOp = "get_user_temperature_reference"
    /\ response = <<32895, 65535>>
    /\ ret = RetValue(F32(1, 0, 8388607))

\* The requests that were handed to the client and have not returned.
OutstandingRequests == {t \in 1..MaxThreads : threads[t].pc = "in_client_call"}

\* C14: whatever the interleaving of the threads that call methods of one
\* session, at most one request is outstanding at any time.
C14_OneOutstandingRequest == Cardinality(OutstandingRequests) <= 1

LastCalibrationReads ==
    {"get_odo_last_calibration_time_and_qc_score",
     "get_conductivity_last_calibration_time_and_qc_score"}

\* C15: every call of a read method makes its own request, whatever was
\* called before it, and a last-calibration read that is answered in full
\* returns the time and the score held by the registers of that answer (the
\* device's registers at the time of the call), also when the call before it
\* was the same read and was answered with other registers.
C15_NoCaching ==
    [][ /\ lastOp' \in ReadOps => Len(calls') = 1
        /\ (lastOp' \in LastCalibrationReads /\ answer' = "ok" /\ Len(response') = 3)
           => ret' = RetDict([last_calibration_time |->
                                 response'[1] * 65536 + response'[2],
                             qc_score |-> response'[3]])
      ]_vars

\* A last-calibration read returned the time and the score of the registers
\* 0x4142 0x4243 0x4344 it was answered with.
C15_Witness ==
    /\ lastOp = "get_odo_last_calibration_time_and_qc_score"
    /\ response = <<16706, 16963, 17220>>
    /\ ret = RetDict([last_calibration_time |-> 1094861379, qc_score |-> 17220])

\* What a session is between two calls: its attributes and its link.
SessionState == <<connected, unit_id, linkOpen>>

\* C16: disconnect raises nothing and leaves the link closed, on a session
\* that was never connected as on any other, and a disconnect that follows a
\* disconnect leaves the session as the first one left it.
C16_DisconnectIdempotent ==
    [][ lastOp' = "disconnect" =>
          /\ ret' = RetNone
          /\ ~linkOpen'
          /\ lastOp = "" => SessionState' = SessionState
          /\ lastOp = "disconnect" => SessionState' = SessionState
      ]_vars

\* disconnect returned on a session whose link is closed and which never
\* reported itself connected.
C16_Witness ==
    /\ lastOp = "disconnect"
    /\ ret = RetNone
    /\ ~linkOpen
    /\ ~connected

\* The bytes of a block of registers, two per word, high byte first.
WordBytes(regs) ==
    [i \in 1..(2 * Len(regs)) |->
        IF i % 2 = 1 THEN regs[(i + 1) \div 2] \div 256 ELSE regs[i \div 2] % 256]

RECURSIVE TrimNul(_)
\* A byte string without its trailing NUL bytes.
TrimNul(bytes) ==
    IF bytes # <<>> /\ bytes[Len(bytes)] = 0
    THEN TrimNul(SubSeq(bytes, 1, Len(bytes) - 1))
    ELSE bytes

\* C17: the cap serial and the two serial numbers of the identification
\* block are returned as the bytes of their words, high byte first, without
\* the trailing NUL bytes.
C17_StringsTrimmed ==
    /\ (lastOp = "get_cap_serial" /\ ret.kind = "value" /\ Len(response) = 5)
       => ret.dict = TrimNul(WordBytes(response))
    /\ (lastOp = "get_device_info" /\ ret.kind = "dict" /\ Len(response) = 17)
       => /\ ret.dict["manufacturing_serial_number"]
               = TrimNul(WordBytes(SubSeq(response, 9, 13)))
          /\ ret.dict["printed_circuit_board_serial_number"]
               = TrimNul(WordBytes(SubSeq(response, 14, 17)))

\* The keys the documentation of get_data lists.
DocumentedDataKeys ==
    {"odo_saturation", "odo_concentration", "odo_local_barometer_compensated",
     "temperature", "ref_temperature", "time_since_boot", "conductivity",
     "specific_conductivity", "salinity", "conductivity_nLF",
     "total_dissolved_solids"}

\* C18: the mapping a successful get_data returns has exactly the eleven
\* keys its documentation lists.
C18_DataKeys ==
    (lastOp = "get_data" /\ ret.kind = "dict") => DOMAIN ret.dict = DocumentedDataKeys

\* C19: no method changes the unit id the session was constructed with, and
\* every read and write a method issues carries that unit id.
C19_OneDeviceAddress ==
    [][ /\ unit_id' = unit_id
        /\ \A i \in 1..Len(calls') : calls'[i].slave = unit_id ]_vars

\* A session constructed with unit id 2 issued a write, and one a read.
C19_Witness ==
    /\ unit_id = 2
    /\ lastOp \in {"perform_odo_zero_calibration", "get_baud_rate_and_parity"}
    /\ Len(calls) = 1
    /\ calls[1].slave = 2

\* Register words of each field type.
TypeWords(type) ==
    CASE type \in {"f32", "u32"} -> 2
      [] type = "u16" -> 1
      [] type = "str10" -> 5
      [] type = "str8" -> 4

\* The fields of the layout each read method decodes.
FieldsDecodedBy(op) ==
    CASE op = "get_device_info" -> DeviceInfoFields
      [] op = "get_data" -> DataFields
      [] op = "get_odo_cap_coefficients" -> CapCoefficientFields
      [] op \in LastCalibrationReads -> LastCalibrationFields
      [] OTHER -> <<>>

\* C20: of a response that was decoded in full, every field is given as
\* many register words as its type takes: two for an F32 or a U32, one for a
\* U16, n for an n-word string.
C20_WordsMatchType ==
    (ret.kind = "dict" /\ Len(response) = RegisterMapWords(lastOp)) =>
        \A i \in 1..Len(FieldsDecodedBy(lastOp)) :
            LET f == FieldsDecodedBy(lastOp)[i]
            IN  Len(Slice(response, f.a, f.b)) = TypeWords(f.type)

\* The word ranges [a, b) of `fields`, in their order, cover the words
\* 0..count-1 once each: the first starts at 0, each starts where the one
\* before it ends, the last ends at count, none is empty.
Tiles(fields, count) ==
    /\ fields # <<>>
    /\ fields[1].a = 0
    /\ fields[Len(fields)].b = count
    /\ \A i \in 1..Len(fields) : fields[i].a < fields[i].b
    /\ \A i \in 1..(Len(fields) - 1) : fields[i].b = fields[i + 1].a
    /\ \A w \in 0..(count - 1) :
          Cardinality({i \in 1..Len(fields) : fields[i].a <= w /\ w < fields[i].b}) = 1

MultiFieldReads ==
    {"get_device_info", "get_data", "get_odo_cap_coefficients"} \cup LastCalibrationReads

\* C21: the word ranges of the fields a multi-field read decodes tile the
\* block it asked the transport for: adjacent, without overlap, without a
\* word left out, their total the word count of the request.
C21_FieldsTileBlock ==
    (lastOp \in MultiFieldReads /\ Len(calls) = 1) =>
        Tiles(FieldsDecodedBy(lastOp), calls[1].count)

\* The live snapshot was read and decoded in full.
C21_Witness ==
    /\ lastOp = "get_data"
    /\ Len(calls) = 1
    /\ calls[1].count = 24
    /\ Len(response) = 24
    /\ ret.kind = "dict"

\* The two register words of a 32-bit unsigned value, high word first.
U32Words(v) == << v \div 65536, v % 65536 >>

\* The binary32 pattern whose high word is hi and whose low word is lo.
F32OfWords(hi, lo) ==
    [s |-> hi \div 32768, e |-> (hi % 32768) \div 128, m |-> (hi % 128) * 65536 + lo]

\* The value of a two-word field of type `type` held high word first in
\* the words regs[a + 1], regs[a + 2].
BigEndianValue(type, regs, a) ==
    IF type = "u32" THEN regs[a + 1] * 65536 + regs[a + 2]
    ELSE CFloatConversion(F32OfWords(regs[a + 1], regs[a + 2]))

\* The float argument a calibration writes after its time, and the second
\* one of the mg/L calibration.
CalibrationFloat ==
    IF lastOp = "perform_odo_percent_saturation_calibration"
    THEN args.barometric_pressure
    ELSE args.calibration_value

\* C22: every two-word number is written and read high word first, high
\* byte first within the word: the words each write method sends are those
\* of its arguments in that order, and each U32 or F32 a read method returns
\* is the value of its two words in that order, also in the methods that
\* name no word order (the cap coefficients and the user coefficients).
C22_BigEndianEverywhere ==
    /\ (lastOp \in CalibrationOps /\ Len(calls) = 1) =>
          /\ SubSeq(calls[1].values, 1, 2) = U32Words(args.calibration_time)
          /\ lastOp # "perform_odo_zero_calibration" =>
                SubSeq(calls[1].values, 3, 4) = F32Words(CalibrationFloat)
          /\ lastOp = "perform_odo_mgL_calibration" =>
                SubSeq(calls[1].values, 5, 6) = F32Words(args.calibration_salinity)
    /\ (lastOp \in UserCoefficientSetters /\ Len(calls) = 1) =>
          calls[1].values = F32Words(CFloatConversion(args.value))
    /\ (lastOp = "set_odo_cap_coefficients" /\ Len(calls) = 1) =>
          \A i \in 1..7 :
              SubSeq(calls[1].values, 2 * i - 1, 2 * i)
                  = F32Words(args.coefficients[CapCoefficientKeys[i]])
    /\ (lastOp \in MultiFieldReads /\ ret.kind = "dict"
          /\ Len(response) = RegisterMapWords(lastOp)) =>
          \A i \in 1..Len(FieldsDecodedBy(lastOp)) :
              LET f == FieldsDecodedBy(lastOp)[i]
              IN  f.type \in {"u32", "f32"} =>
                      ret.dict[f.name] = BigEndianValue(f.type, response, f.a)
    /\ (lastOp \in {"get_user_tds_coefficient", "get_user_temperature_reference",
                     "get_user_temperature_coefficient"} /\ ret.kind = "value") =>
          ret.dict = CFloatConversion(F32OfWords(response[1], response[2]))

\* get_odo_cap_coefficients, whose decoder is given no word order, returned
\* the replacement time held high word first by the last two words.
C22_Witness ==
    /\ lastOp = "get_odo_cap_coefficients"
    /\ ret.kind = "dict"
    /\ response[16] = 20561
    /\ response[17] = 20818
    /\ ret.dict["Cap Replacement Time"] = 20561 * 65536 + 20818

\* The code tables of the specification.
BaudCode(baud_rate) ==
    CASE baud_rate = 9600 -> 0
      [] baud_rate = 19200 -> 1
      [] baud_rate = 38400 -> 2
      [] baud_rate = 57600 -> 3
      [] baud_rate = 115200 -> 4

ParityCode(parity) ==
    CASE parity = "none" -> 0
      [] parity = "odd" -> 1
      [] parity = "even" -> 2

\* No two positions of the sequence hold the same element.
Injective(s) == \A i, j \in 1..Len(s) : s[i] = s[j] => i = j

\* C23: what set_baud_rate_and_parity writes for a valid pair is one word
\* of 16 bits, the parity code in its high byte and the baud code in its low
\* byte; no two labels of a table share a code and no two codes a label, so
\* two different pairs are written as two different words.
C23_CombinedWord ==
    /\ (lastOp = "set_baud_rate_and_parity" /\ Len(calls) = 1) =>
          /\ calls[1].fn = "write_register"
          /\ calls[1].address = 1
          /\ Len(calls[1].values) = 1
          /\ calls[1].values[1] \in 0..65535
          /\ calls[1].values[1] \div 256 = ParityCode(args.parity)
          /\ calls[1].values[1] % 256 = BaudCode(args.baud_rate)
          /\ calls[1].values[1] = ParityCode(args.parity) * 256 + BaudCode(args.baud_rate)
    /\ Injective(baud_rates_keys) /\ Injective(baud_rates_values)
    /\ Injective(parities_keys) /\ Injective(parities_values)
    /\ \A b1, b2 \in Range(baud_rates_keys), p1, p2 \in Range(parities_keys) :
          CombinedValue(b1, p1) = CombinedValue(b2, p2) => (b1 = b2 /\ p1 = p2)

\* 115200 baud with even parity was written as 0x0204.
C23_Witness ==
    /\ lastOp = "set_baud_rate_and_parity"
    /\ args.baud_rate = 115200
    /\ args.parity = "even"
    /\ Len(calls) = 1
    /\ calls[1].values = <<516>>

\* C24: at all times the `connected` flag of the session tells whether the
\* link is open: False after construction, the result of the last connect,
\* False again after disconnect.
C24_ConnectedFlagIsLinkState ==
    /\ connected = linkOpen
    /\ lastOp = "disconnect" => ~connected

====
